---- MODULE Spec2Model ----
(***************************************************************************)
(* A model of knobwrangler (src/src/knobwrangler.py): bulk insertion of    *)
(* user knobs onto a nuke node through the host's addKnob / removeKnob     *)
(* primitives, with name mangling on collision.                            *)
(*                                                                         *)
(* A knob is an identity (a positive integer) with a mutable name and a    *)
(* tab flag.  A name is a sequence of tokens: words without structure      *)
(* ("label", "a"), the underscore "_" and the decimal digits.  This keeps  *)
(* what the mangler's regular expression looks at: a prefix, an            *)
(* underscore, and a run of digits to the end of the name.                 *)
(***************************************************************************)
EXTENDS Integers, Sequences, FiniteSets, TLC

VARIABLES
    nodeClass,  \* the_node.Class()
    autoTab,    \* the host creates a "User" tab before the first user knob
    allKnobs,   \* the_node.allKnobs(): fixed knobs, then user knobs
    name,       \* knob.name() of every knob identity
    isTab,      \* the knob is a nuke.Tab_Knob
    created,    \* number of knobs the caller has constructed
    autoCount,  \* number of tabs the host has created on its own
    calls,      \* number of calls made on the node
    last,       \* the last call: its arguments, the state before, its outcome
    popped,     \* the last pop_user_knobs: the node before it and what it returned
    mg,         \* one application of _name_mangler: target, pool, result
    ip          \* one application of _calculate_insertion_point

vars == <<nodeClass, autoTab, allKnobs, name, isTab, created, autoCount, calls, last, popped, mg, ip>>

nodeVars == <<nodeClass, autoTab, allKnobs, name, isTab, created, autoCount, calls, last, popped>>

(***************************************************************************)
(* Bounds                                                                  *)
(***************************************************************************)
NumKnobs == 3       \* knobs the caller may construct
MaxBatch == 2       \* longest new_knobs list passed to one call
MaxCalls == 2       \* calls made on one node
MaxSuffix == 2      \* largest digit used in the mangler's pool names
MaxPool == 3        \* largest pool of names handed to the mangler
MaxPopCalls == 3    \* calls made on one node that is only popped and added to

\* the host creates at most one tab in a call
MaxAutoTabs == MaxCalls

(***************************************************************************)
(* Names                                                                   *)
(***************************************************************************)
Digits == <<"0", "1", "2", "3", "4", "5", "6", "7", "8", "9">>

DigitSet == {Digits[i] : i \in 1..Len(Digits)}

DigitVal(c) == (CHOOSE i \in 1..Len(Digits) : Digits[i] = c) - 1

Tail2(s, n) == SubSeq(s, n + 1, Len(s))

\* int(): the value of a run of decimal digits; leading zeros do not count
RECURSIVE ParseInt(_)
ParseInt(s) ==
    IF s = <<>> THEN 0
    ELSE ParseInt(SubSeq(s, 1, Len(s) - 1)) * Len(Digits) + DigitVal(s[Len(s)])

\* "{index}".format(index=n): the decimal digits of n, without leading zeros
RECURSIVE FormatInt(_)
FormatInt(n) ==
    IF n < Len(Digits) THEN <<Digits[n + 1]>>
    ELSE FormatInt(n \div Len(Digits)) \o <<Digits[(n % Len(Digits)) + 1]>>

\* re_pattern.search(x) for "^{target}_([0-9]+)$"
re_search(target, x) ==
    /\ Len(x) > Len(target) + 1
    /\ SubSeq(x, 1, Len(target)) = target
    /\ x[Len(target) + 1] = "_"
    /\ \A i \in (Len(target) + 2)..Len(x) : x[i] \in DigitSet

\* int(re_pattern.search(x).group(1))
re_group_int(target, x) == ParseInt(Tail2(x, Len(target) + 1))

\* indexes, sorted: one entry per candidate name, equal values kept
RECURSIVE SortedIndexes(_, _)
SortedIndexes(target, candidates) ==
    IF candidates = {} THEN <<>>
    ELSE LET x == CHOOSE c \in candidates :
                    \A d \in candidates :
                        re_group_int(target, c) <= re_group_int(target, d)
         IN <<re_group_int(target, x)>> \o SortedIndexes(target, candidates \ {x})

\* the for/else over zip(range(1, len(indexes)+1), indexes)
Wanted(indexes) ==
    IF \E i \in 1..Len(indexes) : indexes[i] # i
    THEN CHOOSE i \in 1..Len(indexes) :
            /\ indexes[i] # i
            /\ \A j \in 1..(i - 1) : indexes[j] = j
    ELSE Len(indexes) + 1

_name_mangler(target_name, pool_of_names) ==
    LET candidates == {x \in pool_of_names : re_search(target_name, x)}
        indexes == SortedIndexes(target_name, candidates)
    IN target_name \o <<"_">> \o FormatInt(Wanted(indexes))

(***************************************************************************)
(* Knobs and the node                                                      *)
(***************************************************************************)
NoKnob == 0         \* None, where a knob is expected

LabelKnob == 1      \* the node's 'label' knob, a fixed knob of every node

LastKnob == 2       \* the last non-user knob of the node

CallerKnobs == (LastKnob + 1)..(LastKnob + NumKnobs)

HostTab(j) == LastKnob + NumKnobs + j

HostTabs == {HostTab(j) : j \in 1..MaxAutoTabs}

Knobs == {LabelKnob, LastKnob} \cup CallerKnobs \cup HostTabs

Classes == {"Grade", "Group", "StickyNote", "NoOp", "Dot"}

lastknob_class_map(cls) ==
    CASE cls = "Group" -> <<"window">>
      [] cls = "StickyNote" -> <<"bookmark">>
      [] cls \in {"NoOp", "Dot"} -> <<"hide", "_", "input">>
      [] OTHER -> <<"useLifetime">>

UserTabName == <<"User">>   \* the tab nuke creates before the first user knob

\* what the caller constructs: nuke.Int_Knob(name, ...) and nuke.Tab_Knob(name, ...)
KnobInputs ==
    <<[name |-> <<"label">>, tab |-> FALSE],
      [name |-> <<"label", "_", "0">>, tab |-> FALSE],
      [name |-> <<"User">>, tab |-> FALSE],
      [name |-> <<"my", "_", "user", "_", "tab">>, tab |-> TRUE]>>

Range(s) == {s[i] : i \in 1..Len(s)}

FirstIndex(s, x) == CHOOSE i \in 1..Len(s) : s[i] = x /\ \A j \in 1..(i - 1) : s[j] # x

\* the_node.knobs().keys()
knob_names(knobs, nm) == {nm[k] : k \in Range(knobs)}

\* the_node.knob(knobname): the knob of that name
node_knob(knobs, nm, n) ==
    IF \E i \in 1..Len(knobs) : nm[knobs[i]] = n
    THEN knobs[CHOOSE i \in 1..Len(knobs) :
                  nm[knobs[i]] = n /\ \A j \in 1..(i - 1) : nm[knobs[j]] # n]
    ELSE NoKnob

all_user_knobs(knobs, nm, cls) ==
    LET last_knob == node_knob(knobs, nm, lastknob_class_map(cls))
        last_knob_index == FirstIndex(knobs, last_knob)
    IN SubSeq(knobs, last_knob_index + 1, Len(knobs))

fixed_knobs(knobs, nm, cls) ==
    SubSeq(knobs, 1, Len(knobs) - Len(all_user_knobs(knobs, nm, cls)))

\* as _user_knob_by_name, with the last user knob of that name returned
_user_knob_by_name_last(knobs, nm, cls, knobname) ==
    LET user == all_user_knobs(knobs, nm, cls)
    IN IF \E i \in 1..Len(user) : nm[user[i]] = knobname
       THEN user[CHOOSE i \in 1..Len(user) :
                    nm[user[i]] = knobname /\ \A j \in (i + 1)..Len(user) : nm[user[j]] # knobname]
       ELSE NoKnob

_user_knob_by_name(knobs, nm, cls, knobname) ==
    LET user == all_user_knobs(knobs, nm, cls)
    IN IF \E i \in 1..Len(user) : nm[user[i]] = knobname
       THEN user[CHOOSE i \in 1..Len(user) :
                    nm[user[i]] = knobname /\ \A j \in 1..(i - 1) : nm[user[j]] # knobname]
       ELSE NoKnob

\* as _calculate_insertion_point, with "insert_point += 1" left out
_calculate_insertion_point_no_offset(existing_knob_list, knob_point, insert_before) ==
    IF knob_point = NoKnob
    THEN [err |-> "", point |-> IF ~insert_before THEN Len(existing_knob_list) ELSE 0]
    ELSE IF knob_point \notin Range(existing_knob_list)
         THEN [err |-> "IndexError", point |-> 0]
         ELSE [err |-> "", point |-> FirstIndex(existing_knob_list, knob_point) - 1]

\* as _calculate_insertion_point, with a knob that is not in the list taken as None
_calculate_insertion_point_lenient(existing_knob_list, knob_point, insert_before) ==
    IF knob_point = NoKnob \/ knob_point \notin Range(existing_knob_list)
    THEN [err |-> "", point |-> IF ~insert_before THEN Len(existing_knob_list) ELSE 0]
    ELSE [err |-> "",
          point |-> (FirstIndex(existing_knob_list, knob_point) - 1)
                    + (IF ~insert_before THEN 1 ELSE 0)]

\* as _calculate_insertion_point, with insert_before taken as False
_calculate_insertion_point_after(existing_knob_list, knob_point, insert_before) ==
    IF knob_point = NoKnob
    THEN [err |-> "", point |-> Len(existing_knob_list)]
    ELSE IF knob_point \notin Range(existing_knob_list)
         THEN [err |-> "IndexError", point |-> 0]
         ELSE [err |-> "", point |-> FirstIndex(existing_knob_list, knob_point)]

_calculate_insertion_point(existing_knob_list, knob_point, insert_before) ==
    IF knob_point = NoKnob
    THEN [err |-> "", point |-> IF ~insert_before THEN Len(existing_knob_list) ELSE 0]
    ELSE IF knob_point \notin Range(existing_knob_list)
         THEN [err |-> "IndexError", point |-> 0]
         ELSE [err |-> "",
               point |-> (FirstIndex(existing_knob_list, knob_point) - 1)
                         + (IF ~insert_before THEN 1 ELSE 0)]

(***************************************************************************)
(* The host: the_node.removeKnob and the_node.addKnob, on the host state   *)
(* h = [knobs, name, isTab, autoCount].  removeKnob takes a knob out of    *)
(* the list (its first occurrence), addKnob puts a knob at the end of the  *)
(* list.  A host with autoTab first creates a tab named User when the knob *)
(* added is the node's first user knob and is not a tab itself, which is   *)
(* why test_simple_knob_addition gets two knobs back for one knob added.   *)
(***************************************************************************)
removeKnob(h, knob) ==
    LET i == FirstIndex(h.knobs, knob)
    IN [h EXCEPT !.knobs = SubSeq(h.knobs, 1, i - 1) \o SubSeq(h.knobs, i + 1, Len(h.knobs))]

addKnob(h, knob, cls, auto) ==
    IF auto /\ all_user_knobs(h.knobs, h.name, cls) = <<>> /\ ~h.isTab[knob]
    THEN LET t == HostTab(h.autoCount + 1)
         IN [knobs |-> h.knobs \o <<t, knob>>,
             name |-> [h.name EXCEPT ![t] = UserTabName],
             isTab |-> [h.isTab EXCEPT ![t] = TRUE],
             autoCount |-> h.autoCount + 1]
    ELSE [h EXCEPT !.knobs = h.knobs \o <<knob>>]

RECURSIVE RemoveAll(_, _)
RemoveAll(h, knobs) ==
    IF knobs = <<>> THEN h ELSE RemoveAll(removeKnob(h, Head(knobs)), Tail(knobs))

RECURSIVE AddAll(_, _, _, _)
AddAll(h, knobs, cls, auto) ==
    IF knobs = <<>> THEN h
    ELSE AddAll(addKnob(h, Head(knobs), cls, auto), Tail(knobs), cls, auto)

(***************************************************************************)
(* insert                                                                  *)
(***************************************************************************)
\* if not isinstance(new_knobs, list): new_knobs = [new_knobs]
\* an argument is [list |-> TRUE, knobs |-> <<...>>] or [list |-> FALSE, knobs |-> <<k>>]
as_list(new_knobs) == new_knobs.knobs

\* as has_duplicates, with the sanity check left out
has_duplicates_unchecked(new_knobs) == FALSE

\* len(set(new_knobs)) != len(new_knobs)
has_duplicates(new_knobs) == Cardinality(Range(new_knobs)) # Len(new_knobs)

\* as name_is_free, with every new knob mangled whether it needs it or not
name_is_free_never(knob_name, exhausted_names) == FALSE

\* knob.name() not in exhausted_names
name_is_free(knob_name, exhausted_names) == knob_name \notin exhausted_names

\* as names_add, with the name not added to the pool
names_add_forgotten(exhausted_names, knob_name) == exhausted_names

\* exhausted_names.add(...)
names_add(exhausted_names, knob_name) == exhausted_names \cup {knob_name}

\* the loop over new_knobs that renames the knobs whose name is taken
RECURSIVE rename_new_knobs(_, _, _)
rename_new_knobs(nm, exhausted_names, new_knobs) ==
    IF new_knobs = <<>> THEN nm
    ELSE LET knob == Head(new_knobs)
         IN IF name_is_free(nm[knob], exhausted_names)
            THEN rename_new_knobs(nm, names_add(exhausted_names, nm[knob]), Tail(new_knobs))
            ELSE LET new_name == _name_mangler(nm[knob], exhausted_names)
                 IN rename_new_knobs([nm EXCEPT ![knob] = new_name],
                                     names_add(exhausted_names, new_name),
                                     Tail(new_knobs))

\* proposed_list[insert_point:insert_point] = new_knobs
splice(pre_change_knobs, insert_point, new_knobs) ==
    SubSeq(pre_change_knobs, 1, insert_point)
        \o new_knobs
        \o SubSeq(pre_change_knobs, insert_point + 1, Len(pre_change_knobs))

\* index = 0; for index, knob in enumerate(pre): if knob != proposed[index]: break
first_difference(pre_change_knobs, proposed_list) ==
    IF pre_change_knobs = <<>> THEN 0
    ELSE IF \E i \in 1..Len(pre_change_knobs) : pre_change_knobs[i] # proposed_list[i]
         THEN (CHOOSE i \in 1..Len(pre_change_knobs) :
                  /\ pre_change_knobs[i] # proposed_list[i]
                  /\ \A j \in 1..(i - 1) : pre_change_knobs[j] = proposed_list[j]) - 1
         ELSE Len(pre_change_knobs) - 1

HostLog(op, knobs) == [i \in 1..Len(knobs) |-> <<op, knobs[i]>>]

SelectSeq2(s, keep) ==
    LET F[i \in 0..Len(s)] ==
            IF i = 0 THEN <<>>
            ELSE IF s[i] \in keep THEN F[i - 1] \o <<s[i]>> ELSE F[i - 1]
    IN F[Len(s)]

\* as added_knobs, with "not in" written as "in"
added_knobs_inverted(post_change_knobs, pre_change_knobs) ==
    SelectSeq2(post_change_knobs, Range(pre_change_knobs))

\* as added_knobs, with every user knob returned
added_knobs_unfiltered(post_change_knobs, pre_change_knobs) == post_change_knobs

\* [x for x in all_user_knobs(the_node) if x not in set(pre_change_knobs)]
added_knobs(post_change_knobs, pre_change_knobs) ==
    SelectSeq2(post_change_knobs, Knobs \ Range(pre_change_knobs))

Failed(h, error) == [outcome |-> error, h |-> h, log |-> <<>>, ret |-> <<>>]

\* the knob a knob_point argument stands for: None, a name looked up, or a knob
resolve_knob_point(h, cls, knob_point) ==
    IF knob_point.type = "none" THEN NoKnob
    ELSE IF knob_point.type = "str"
         THEN _user_knob_by_name(h.knobs, h.name, cls, knob_point.str)
         ELSE knob_point.knob

insert(h, cls, auto, new_knobs_arg, knob_point_arg, insert_before) ==
    LET new_knobs == as_list(new_knobs_arg)
        knob_point == resolve_knob_point(h, cls, knob_point_arg)
        pre_change_knobs == all_user_knobs(h.knobs, h.name, cls)
        insert_point == _calculate_insertion_point(pre_change_knobs, knob_point, insert_before)
        renamed == rename_new_knobs(h.name, knob_names(h.knobs, h.name), new_knobs)
        proposed_list == splice(pre_change_knobs, insert_point.point, new_knobs)
        index == first_difference(pre_change_knobs, proposed_list)
        removed == SubSeq(pre_change_knobs, index + 1, Len(pre_change_knobs))
        added == SubSeq(proposed_list, index + 1, Len(proposed_list))
        h1 == [h EXCEPT !.name = renamed]
        h2 == RemoveAll(h1, removed)
        h3 == AddAll(h2, added, cls, auto)
    IN IF has_duplicates(new_knobs) THEN Failed(h, "ValueError: duplicate knobs")
       ELSE IF knob_point_arg.type = "str" /\ knob_point = NoKnob
            THEN Failed(h, "ValueError: insertion point")
       ELSE IF insert_point.err # "" THEN Failed(h, "IndexError: insertion point")
       ELSE [outcome |-> "ok",
             h |-> h3,
             log |-> HostLog("removeKnob", removed) \o HostLog("addKnob", added),
             ret |-> added_knobs(all_user_knobs(h3.knobs, h3.name, cls), pre_change_knobs)]

\* add_knobs(new_knobs, the_node)
add_knobs(h, cls, auto, new_knobs_arg) ==
    insert(h, cls, auto, new_knobs_arg, [type |-> "none", str |-> <<>>, knob |-> NoKnob], FALSE)

(***************************************************************************)
(* pop_user_knobs and mangle_knob_name                                     *)
(***************************************************************************)
\* as reversed, with the list left in its order
reversed_not(s) == s

\* knobs_to_pop[::-1]
RECURSIVE reversed(_)
reversed(s) == IF s = <<>> THEN <<>> ELSE reversed(Tail(s)) \o <<Head(s)>>

\* as pop_user_knobs, with every knob of the node popped
pop_all_knobs(h, cls) ==
    [outcome |-> "ok",
     h |-> RemoveAll(h, reversed(h.knobs)),
     log |-> HostLog("removeKnob", reversed(h.knobs)),
     ret |-> h.knobs]

\* as pop_user_knobs, with the knobs given back last knob first
pop_user_knobs_backwards(h, cls) ==
    LET knobs_to_pop == all_user_knobs(h.knobs, h.name, cls)
    IN [outcome |-> "ok",
        h |-> RemoveAll(h, reversed(knobs_to_pop)),
        log |-> HostLog("removeKnob", reversed(knobs_to_pop)),
        ret |-> reversed(knobs_to_pop)]

pop_user_knobs(h, cls) ==
    LET knobs_to_pop == all_user_knobs(h.knobs, h.name, cls)
    IN [outcome |-> "ok",
        h |-> RemoveAll(h, reversed(knobs_to_pop)),
        log |-> HostLog("removeKnob", reversed(knobs_to_pop)),
        ret |-> knobs_to_pop]

\* the name returned, and the names of the knobs after the call
mangle_knob_name(h, knob, rename) ==
    IF knob \in Range(h.knobs) THEN [name |-> h.name, ret |-> h.name[knob]]
    ELSE IF h.name[knob] \notin {h.name[x] : x \in Range(h.knobs)}
         THEN [name |-> h.name, ret |-> h.name[knob]]
    ELSE LET new_name == _name_mangler(h.name[knob], knob_names(h.knobs, h.name))
         IN [name |-> IF rename THEN [h.name EXCEPT ![knob] = new_name] ELSE h.name,
             ret |-> new_name]

(***************************************************************************)
(* The node as a state machine.  The caller first constructs its knobs,    *)
(* then calls the functions of the module; each call runs to its return or *)
(* its exception in one step, and the caller takes the result before it    *)
(* calls again.  A knob constructed later than a call it takes no part in  *)
(* gives the same node as one constructed earlier, so construction comes   *)
(* first.                                                                  *)
(***************************************************************************)
NoPoint == [type |-> "none", str |-> <<>>, knob |-> NoKnob]

NoCall ==
    [op |-> "none", new_knobs |-> <<>>, knob_point |-> NoPoint, insert_before |-> FALSE,
     rename |-> FALSE, outcome |-> "", log |-> <<>>, ret |-> <<>>, retName |-> <<>>,
     preKnobs |-> <<>>, preName |-> <<>>]

NoPop == [done |-> FALSE, knobs |-> <<>>, name |-> <<>>, ret |-> <<>>]

MgIdle == [target |-> <<>>, pool |-> {}, result |-> <<>>, done |-> FALSE]

IpIdle ==
    [list |-> <<>>, knob_point |-> NoKnob, insert_before |-> FALSE,
     result |-> [err |-> "", point |-> 0], done |-> FALSE]

Host == [knobs |-> allKnobs, name |-> name, isTab |-> isTab, autoCount |-> autoCount]

CreatedKnobs == (LastKnob + 1)..(LastKnob + created)

SeqsUpTo(S, n) == UNION {[1..m -> S] : m \in 0..n}

\* new_knobs arguments: a list of knobs the caller holds, or one knob
NewKnobsArgs ==
    {[list |-> TRUE, knobs |-> s] : s \in SeqsUpTo(CreatedKnobs, MaxBatch)}
        \cup {[list |-> FALSE, knobs |-> <<k>>] : k \in CreatedKnobs}

\* knob_point arguments: None, a name, or a knob
KnobPointArgs ==
    {NoPoint}
        \cup {[type |-> "str", str |-> n, knob |-> NoKnob] :
                n \in {<<"label">>, <<"THISCANTBEHERE">>} \cup {name[k] : k \in CreatedKnobs}}
        \cup {[type |-> "knob", str |-> <<>>, knob |-> k] :
                k \in CreatedKnobs \cup {LabelKnob}}

InitialName(cls) ==
    [k \in Knobs |->
        IF k = LabelKnob THEN <<"label">>
        ELSE IF k = LastKnob THEN lastknob_class_map(cls)
        ELSE <<>>]

Init ==
    /\ nodeClass \in Classes
    /\ autoTab \in BOOLEAN
    /\ allKnobs = <<LabelKnob, LastKnob>>
    /\ name = InitialName(nodeClass)
    /\ isTab = [k \in Knobs |-> FALSE]
    /\ created = 0
    /\ autoCount = 0
    /\ calls = 0
    /\ last = NoCall
    /\ popped = NoPop
    /\ mg = MgIdle
    /\ ip = IpIdle

\* the caller constructs a knob: nuke.Int_Knob(name, ...) or nuke.Tab_Knob(name, ...)
\* Knob identities are interchangeable, so the knobs are constructed in the order
\* of KnobInputs: any other order is the same knobs under other identities.
NewKnob(inp) ==
    /\ calls = 0
    /\ last.op = "none"
    /\ created < NumKnobs
    /\ \A k \in CreatedKnobs :
          \E i \in 1..Len(KnobInputs) :
              /\ KnobInputs[i].name = name[k] /\ KnobInputs[i].tab = isTab[k]
              /\ \E j \in i..Len(KnobInputs) : KnobInputs[j] = inp
    /\ name' = [name EXCEPT ![LastKnob + created + 1] = inp.name]
    /\ isTab' = [isTab EXCEPT ![LastKnob + created + 1] = inp.tab]
    /\ created' = created + 1
    /\ UNCHANGED <<nodeClass, autoTab, allKnobs, autoCount, calls, last, popped, mg, ip>>

\* the state after a call that returned or raised r
Apply(op, new_knobs_arg, knob_point_arg, insert_before, r) ==
    /\ last.op = "none"
    /\ allKnobs' = r.h.knobs
    /\ name' = r.h.name
    /\ isTab' = r.h.isTab
    /\ autoCount' = r.h.autoCount
    /\ calls' = calls + 1
    /\ last' = [op |-> op, new_knobs |-> as_list(new_knobs_arg),
                knob_point |-> knob_point_arg, insert_before |-> insert_before,
                rename |-> FALSE,
                outcome |-> r.outcome, log |-> r.log, ret |-> r.ret, retName |-> <<>>,
                preKnobs |-> allKnobs, preName |-> name]
    /\ UNCHANGED <<nodeClass, autoTab, created, popped, mg, ip>>

Insert(new_knobs_arg, knob_point_arg, insert_before) ==
    Apply("insert", new_knobs_arg, knob_point_arg, insert_before,
          insert(Host, nodeClass, autoTab, new_knobs_arg, knob_point_arg, insert_before))

AddKnobs(new_knobs_arg) ==
    Apply("add_knobs", new_knobs_arg, NoPoint, FALSE,
          add_knobs(Host, nodeClass, autoTab, new_knobs_arg))

\* pop_user_knobs(the_node)
PopUserKnobs ==
    LET r == pop_user_knobs(Host, nodeClass)
    IN /\ last.op = "none"
       /\ allKnobs' = r.h.knobs
       /\ calls' = calls + 1
       /\ last' = [NoCall EXCEPT !.op = "pop_user_knobs", !.outcome = r.outcome,
                                 !.log = r.log, !.ret = r.ret,
                                 !.preKnobs = allKnobs, !.preName = name]
       /\ popped' = [done |-> TRUE, knobs |-> allKnobs, name |-> name, ret |-> r.ret]
       /\ UNCHANGED <<nodeClass, autoTab, name, isTab, created, autoCount, mg, ip>>

\* mangle_knob_name(knob, the_node, rename)
MangleKnobName(knob, rename) ==
    LET r == mangle_knob_name(Host, knob, rename)
    IN /\ last.op = "none"
       /\ name' = r.name
       /\ calls' = calls + 1
       /\ last' = [NoCall EXCEPT !.op = "mangle_knob_name", !.new_knobs = <<knob>>,
                                 !.rename = rename, !.outcome = "ok", !.retName = r.ret,
                                 !.preKnobs = allKnobs, !.preName = name]
       /\ UNCHANGED <<nodeClass, autoTab, allKnobs, isTab, created, autoCount, popped, mg, ip>>

\* _user_knob_by_name(the_node, knobname)
UserKnobByName(knobname) ==
    /\ last.op = "none"
    /\ calls' = calls + 1
    /\ last' = [NoCall EXCEPT !.op = "_user_knob_by_name",
                              !.knob_point = [type |-> "str", str |-> knobname, knob |-> NoKnob],
                              !.outcome = "ok",
                              !.ret = <<_user_knob_by_name(allKnobs, name, nodeClass, knobname)>>,
                              !.preKnobs = allKnobs, !.preName = name]
    /\ UNCHANGED <<nodeClass, autoTab, allKnobs, name, isTab, created, autoCount, popped, mg, ip>>

\* the caller has taken the result (or caught the exception) of the last call
Return ==
    /\ last.op # "none"
    /\ last' = NoCall
    /\ UNCHANGED <<nodeClass, autoTab, allKnobs, name, isTab, created, autoCount, calls,
                   popped, mg, ip>>

\* the caller makes at most MaxCalls calls on the node
Next ==
    \/ \E inp \in Range(KnobInputs) : NewKnob(inp)
    \/ calls < MaxCalls /\ \E a \in NewKnobsArgs, p \in KnobPointArgs, b \in BOOLEAN :
                                Insert(a, p, b)
    \/ calls < MaxCalls /\ \E a \in NewKnobsArgs : AddKnobs(a)
    \/ calls < MaxCalls /\ PopUserKnobs
    \/ calls < MaxCalls /\ \E k \in CreatedKnobs, b \in BOOLEAN : MangleKnobName(k, b)
    \/ calls < MaxCalls /\ \E p \in KnobPointArgs : p.type = "str" /\ UserKnobByName(p.str)
    \/ Return

Spec == Init /\ [][Next]_vars

\* a caller that only pops the user knobs and adds knobs at the end
PopNext ==
    \/ \E inp \in Range(KnobInputs) : NewKnob(inp)
    \/ calls < MaxPopCalls /\ \E a \in NewKnobsArgs : AddKnobs(a)
    \/ calls < MaxPopCalls /\ PopUserKnobs
    \/ Return

PopSpec == Init /\ [][PopNext]_vars

(***************************************************************************)
(* _name_mangler on its own: a target name and a pool of names             *)
(***************************************************************************)
MangleTargets == {<<"a">>, <<"a", "_", "1">>}

DigitRuns ==
    {<<Digits[i + 1]>> : i \in 0..MaxSuffix}
        \cup {<<Digits[i + 1], Digits[j + 1]>> : i \in 0..MaxSuffix, j \in 0..MaxSuffix}

PoolNames ==
    {<<"a">> \o <<"_">> \o d : d \in DigitRuns}
        \cup {<<"a">>, <<"a", "_", "1", "_", "1">>, <<"b", "_", "1">>}

RECURSIVE PoolsUpTo(_)
PoolsUpTo(n) ==
    IF n = 0 THEN {{}}
    ELSE LET smaller == PoolsUpTo(n - 1)
         IN smaller \cup {p \cup {x} : p \in smaller, x \in PoolNames}

MangleInit ==
    /\ nodeClass = "Grade"
    /\ autoTab = FALSE
    /\ allKnobs = <<LabelKnob, LastKnob>>
    /\ name = InitialName(nodeClass)
    /\ isTab = [k \in Knobs |-> FALSE]
    /\ created = 0
    /\ autoCount = 0
    /\ calls = 0
    /\ last = NoCall
    /\ popped = NoPop
    /\ ip = IpIdle
    /\ mg \in {[target |-> t, pool |-> p, result |-> <<>>, done |-> FALSE] :
                t \in MangleTargets, p \in PoolsUpTo(MaxPool)}

Mangle ==
    /\ ~mg.done
    /\ mg' = [mg EXCEPT !.result = _name_mangler(mg.target, mg.pool), !.done = TRUE]
    /\ UNCHANGED <<nodeVars, ip>>

MangleNext == Mangle

MangleSpec == MangleInit /\ [][MangleNext]_vars

(***************************************************************************)
(* _calculate_insertion_point on its own: a list of user knobs, a knob or  *)
(* None as the knob point, and insert_before                               *)
(***************************************************************************)
\* lists of user knobs as all_user_knobs gives them: every knob once
KnobLists == {s \in SeqsUpTo(CallerKnobs, NumKnobs) : Cardinality(Range(s)) = Len(s)}

ResolveInit ==
    /\ nodeClass = "Grade"
    /\ autoTab = FALSE
    /\ allKnobs = <<LabelKnob, LastKnob>>
    /\ name = InitialName(nodeClass)
    /\ isTab = [k \in Knobs |-> FALSE]
    /\ created = 0
    /\ autoCount = 0
    /\ calls = 0
    /\ last = NoCall
    /\ popped = NoPop
    /\ mg = MgIdle
    /\ ip \in {[list |-> s, knob_point |-> k, insert_before |-> b,
                 result |-> [err |-> "", point |-> 0], done |-> FALSE] :
                s \in KnobLists, k \in {NoKnob, LabelKnob} \cup CallerKnobs, b \in BOOLEAN}

Resolve ==
    /\ ~ip.done
    /\ ip' = [ip EXCEPT
                !.result = _calculate_insertion_point(ip.list, ip.knob_point, ip.insert_before),
                !.done = TRUE]
    /\ UNCHANGED <<nodeVars, mg>>

ResolveNext == Resolve

ResolveSpec == ResolveInit /\ [][ResolveNext]_vars

(***************************************************************************)
(* Properties of _name_mangler (checked under MangleSpec)                  *)
(***************************************************************************)
Suffixed(target, n) == target \o <<"_">> \o FormatInt(n)

\* some name of the pool is target_<digits> with the digits reading n
SuffixInUse(target, pool, n) ==
    \E x \in pool : re_search(target, x) /\ re_group_int(target, x) = n

\* the lowest positive n such that no target_<n> is in the pool
LowestFree(target, pool) ==
    CHOOSE n \in 1..(Cardinality(pool) + 1) :
        /\ ~SuffixInUse(target, pool, n)
        /\ \A m \in 1..(n - 1) : SuffixInUse(target, pool, m)

\* C1: the name _name_mangler returns is never one of the names in use,
\* whatever the pool holds (target_0 and target_01 included).
C1_MangledNameNotInUse == mg.done => mg.result \notin mg.pool

\* C2: _name_mangler returns target_<n> for the lowest positive n such that
\* target_<n> is not in the pool (target_1 on a pool without any target_<n>,
\* the first gap otherwise).
C2_LowestFreeSuffix ==
    mg.done => mg.result = Suffixed(mg.target, LowestFree(mg.target, mg.pool))

(***************************************************************************)
(* Properties of insert and add_knobs (checked under Spec).  They read the *)
(* last call: its arguments, the node before it, and the node now.         *)
(***************************************************************************)
IsCall == last.op \in {"insert", "add_knobs"}

Succeeded == IsCall /\ last.outcome = "ok"

PreUser == all_user_knobs(last.preKnobs, last.preName, nodeClass)

PostUser == all_user_knobs(allKnobs, name, nodeClass)

\* no knob is twice in the node's list before the call
NoKnobTwice == \A i, j \in 1..Len(last.preKnobs) : i # j => last.preKnobs[i] # last.preKnobs[j]

\* every knob of the batch is new to the node
BatchIsNew == Range(last.new_knobs) \cap Range(last.preKnobs) = {}

BatchHasDuplicate ==
    \E i, j \in 1..Len(last.new_knobs) : i # j /\ last.new_knobs[i] = last.new_knobs[j]

NodeUnchanged == allKnobs = last.preKnobs /\ name = last.preName /\ last.log = <<>>

\* positions (from 1) in the user knobs before the call that the anchor stands for
AnchorPositions ==
    IF last.knob_point.type = "str"
    THEN {i \in 1..Len(PreUser) :
            /\ last.preName[PreUser[i]] = last.knob_point.str
            /\ \A j \in 1..(i - 1) : last.preName[PreUser[j]] # last.knob_point.str}
    ELSE IF last.knob_point.type = "knob"
         THEN {i \in 1..Len(PreUser) :
                /\ PreUser[i] = last.knob_point.knob
                /\ \A j \in 1..(i - 1) : PreUser[j] # last.knob_point.knob}
         ELSE {}

\* the user knobs before the call with the batch placed as one block at the anchor
Spliced(i) ==
    LET gap == IF last.insert_before THEN i - 1 ELSE i
    IN SubSeq(PreUser, 1, gap) \o last.new_knobs \o SubSeq(PreUser, gap + 1, Len(PreUser))

\* the tab the host created on its own during the last call, as a list
HostCreated == SelectSeq2(allKnobs, HostTabs \ Range(last.preKnobs))

\* C3 as stated: after a successful insert at an anchor the user knobs are the
\* previous user knobs with the batch spliced in at the anchor, nothing else.
C3_SplicedAtAnchor ==
    (Succeeded /\ BatchIsNew /\ NoKnobTwice) =>
        \A i \in AnchorPositions : PostUser = Spliced(i)

\* C3 amended: after a successful insert of new knobs at an anchor the user knobs
\* are the previous user knobs with the batch spliced in as one block after (or
\* before) the anchor, preceded by the tab the host creates on its own when the
\* host creates tabs and the spliced list starts with a knob that is not a tab.
C3_SplicedAtAnchorAfterHostTab ==
    (Succeeded /\ BatchIsNew /\ NoKnobTwice) =>
        \A i \in AnchorPositions :
            /\ PostUser = HostCreated \o Spliced(i)
            /\ HostCreated # <<>> <=> (autoTab /\ ~isTab[Spliced(i)[1]])

C3_Witness ==
    /\ Succeeded /\ BatchIsNew /\ NoKnobTwice
    /\ Len(last.new_knobs) = MaxBatch
    /\ Len(PreUser) >= 2
    /\ ~last.insert_before
    /\ 1 \in AnchorPositions

\* C4: insert with an anchor that is not a user knob of the node (a name no user
\* knob carries, the name of a fixed knob, or a knob that is not a user knob)
\* raises the insertion point error and leaves the node and every name as they were.
C4_InvalidAnchorFailsClean ==
    IsCall =>
        /\ (last.knob_point.type # "none" /\ AnchorPositions = {}) =>
              /\ NodeUnchanged
              /\ last.outcome # "ok"
              /\ ~BatchHasDuplicate =>
                    last.outcome = (IF last.knob_point.type = "str"
                                    THEN "ValueError: insertion point"
                                    ELSE "IndexError: insertion point")
        /\ (/\ last.knob_point.type = "str"
            /\ last.knob_point.str \in
                 knob_names(fixed_knobs(last.preKnobs, last.preName, nodeClass), last.preName))
              => last.outcome # "ok"

C4_Witness ==
    /\ IsCall /\ calls = MaxCalls
    /\ Len(PreUser) > 0
    /\ last.knob_point.type = "str" /\ last.knob_point.str = <<"label">>
    /\ last.new_knobs # <<>> /\ BatchIsNew /\ ~BatchHasDuplicate
    /\ last.outcome = "ValueError: insertion point"

\* C5: a batch that holds the same knob twice raises the duplicate error before
\* anything changes; a batch of distinct knobs never does, equal names or not.
C5_DuplicateInputFailsClean ==
    IsCall =>
        /\ BatchHasDuplicate <=> last.outcome = "ValueError: duplicate knobs"
        /\ BatchHasDuplicate => NodeUnchanged

C5_Witness ==
    /\ IsCall /\ BatchHasDuplicate
    /\ Len(PreUser) > 0
    /\ last.outcome = "ValueError: duplicate knobs"

PairwiseDistinctNames(knobs, nm) ==
    \A i, j \in 1..Len(knobs) : i # j => nm[knobs[i]] # nm[knobs[j]]

\* C6: after a successful insert of new knobs on a node whose names are pairwise
\* distinct, every inserted knob has a name no other knob of the batch and no
\* knob attached before the call carries.
C6_InsertedNamesUnique ==
    (Succeeded /\ BatchIsNew /\ PairwiseDistinctNames(last.preKnobs, last.preName)) =>
        \A k \in Range(last.new_knobs) :
            \A other \in (Range(last.preKnobs) \cup Range(last.new_knobs)) \ {k} :
                name[k] # name[other]

\* C7: insert renames a new knob only when needed: it keeps its name when the name
\* is neither in use on the node before the call nor taken by an earlier knob of
\* the batch, and it gets another name when its name is in use on the node.
C7_RenamedOnlyWhenNeeded ==
    Succeeded =>
        \A i \in 1..Len(last.new_knobs) :
            LET k == last.new_knobs[i]
                in_use == knob_names(last.preKnobs, last.preName)
                taken == {name[last.new_knobs[j]] : j \in 1..(i - 1)}
            IN k \notin Range(last.preKnobs) =>
                /\ last.preName[k] \notin (in_use \cup taken) => name[k] = last.preName[k]
                /\ last.preName[k] \in in_use => name[k] # last.preName[k]

C7_Witness ==
    /\ Succeeded /\ BatchIsNew /\ Len(last.new_knobs) = 2
    /\ name[last.new_knobs[1]] # last.preName[last.new_knobs[1]]
    /\ name[last.new_knobs[2]] = last.preName[last.new_knobs[2]]

\* C8 as stated: one knob inserted with no anchor on a node without user knobs
\* gives exactly one new user knob, the last knob of the node.
C8_OneNewUserKnob ==
    (Succeeded /\ PreUser = <<>> /\ Len(last.new_knobs) = 1
        /\ last.knob_point.type = "none") =>
        /\ last.ret = last.new_knobs
        /\ PostUser = last.new_knobs
        /\ last.ret[Len(last.ret)] = allKnobs[Len(allKnobs)]

\* C8 amended: one knob inserted with no anchor on a node without user knobs ends
\* up as the last knob of the node and as the last knob returned; the new user
\* knobs are that knob alone when it is a tab or the host creates no tab, and the
\* host's own tab followed by that knob otherwise.
C8_NewKnobIsLast ==
    (Succeeded /\ PreUser = <<>> /\ Len(last.new_knobs) = 1
        /\ last.knob_point.type = "none") =>
        /\ last.ret = PostUser
        /\ last.ret[Len(last.ret)] = allKnobs[Len(allKnobs)]
        /\ PostUser = (IF autoTab /\ ~isTab[last.new_knobs[1]]
                       THEN <<HostTab(autoCount)>> ELSE <<>>) \o last.new_knobs

C8_Witness ==
    /\ Succeeded /\ PreUser = <<>> /\ Len(last.new_knobs) = 1
    /\ last.op = "add_knobs"
    /\ Len(last.ret) = 2

\* C9: two distinct new knobs both named X, inserted in one batch on a node where
\* no knob is named X or X_<n>, end up as user knobs named X (the first) and X_1
\* (the second).
C9_SecondOfTwoGetsSuffixOne ==
    (/\ Succeeded /\ BatchIsNew /\ Len(last.new_knobs) = 2
     /\ last.new_knobs[1] # last.new_knobs[2]
     /\ last.preName[last.new_knobs[1]] = last.preName[last.new_knobs[2]]
     /\ \A n \in knob_names(last.preKnobs, last.preName) :
            /\ n # last.preName[last.new_knobs[1]]
            /\ ~re_search(last.preName[last.new_knobs[1]], n)) =>
        /\ name[last.new_knobs[1]] = last.preName[last.new_knobs[1]]
        /\ name[last.new_knobs[2]] = last.preName[last.new_knobs[1]] \o <<"_", "1">>
        /\ Range(last.new_knobs) \subseteq Range(PostUser)

C9_Witness ==
    /\ Succeeded /\ BatchIsNew /\ Len(last.new_knobs) = 2
    /\ last.new_knobs[1] # last.new_knobs[2]
    /\ last.preName[last.new_knobs[1]] = last.preName[last.new_knobs[2]]
    /\ name[last.new_knobs[2]] = last.preName[last.new_knobs[1]] \o <<"_", "1">>
    /\ Len(PreUser) > 0

\* C10: an insert of an empty batch, whose proposed list is the current list,
\* calls neither removeKnob nor addKnob, however many user knobs the node has.
C10_NoChangeNoHostCalls ==
    (Succeeded /\ last.new_knobs = <<>>) => last.log = <<>>

PreHost ==
    [knobs |-> last.preKnobs, name |-> name, isTab |-> isTab,
     autoCount |-> autoCount - Len(HostCreated)]

HostStep(h, e) ==
    IF e[1] = "removeKnob" THEN removeKnob(h, e[2]) ELSE addKnob(h, e[2], nodeClass, autoTab)

\* the host before the last call and after each removeKnob / addKnob of the call
HostStates ==
    LET F[i \in 0..Len(last.log)] == IF i = 0 THEN PreHost ELSE HostStep(F[i - 1], last.log[i])
    IN F

FixedBefore == fixed_knobs(last.preKnobs, last.preName, nodeClass)

NamedPositions == {i \in 1..Len(PreUser) : last.preName[PreUser[i]] = last.knob_point.str}

FirstNamed == CHOOSE i \in NamedPositions : \A j \in NamedPositions : i <= j

\* C13: _user_knob_by_name returns the first user knob, in the order of the
\* node's list, whose name is the name asked for, and None when no user knob has
\* that name (the name of a fixed knob included); an insert by name fails when no
\* user knob has the name and otherwise places the batch after (or before) the
\* first user knob of that name.
C13_FirstUserKnobOfThatName ==
    /\ last.op = "_user_knob_by_name" =>
          /\ NamedPositions = {} => last.ret = <<NoKnob>>
          /\ NamedPositions # {} => last.ret = <<PreUser[FirstNamed]>>
          /\ last.ret[1] \notin Range(FixedBefore)
    /\ (IsCall /\ last.knob_point.type = "str" /\ ~BatchHasDuplicate) =>
          /\ NamedPositions = {} <=> last.outcome = "ValueError: insertion point"
          /\ (NamedPositions # {} /\ BatchIsNew /\ NoKnobTwice) =>
                /\ last.outcome = "ok"
                /\ PostUser = HostCreated \o Spliced(FirstNamed)

C13_Witness ==
    /\ Succeeded /\ last.knob_point.type = "str" /\ BatchIsNew /\ NoKnobTwice
    /\ last.new_knobs # <<>>
    /\ \E i, j \in NamedPositions : i < j /\ PreUser[i] # PreUser[j]

\* the knobs of the calls to op (removeKnob or addKnob) of the last call, in call order
LogKnobs(op) ==
    LET F[i \in 0..Len(last.log)] ==
            IF i = 0 THEN <<>>
            ELSE IF last.log[i][1] = op THEN F[i - 1] \o <<last.log[i][2]>> ELSE F[i - 1]
    IN F[Len(last.log)]

\* the list insert proposed: the user knobs after the call without the host's own tab
Proposed == SelectSeq2(PostUser, Knobs \ Range(HostCreated))

\* C14: in a successful insert every removeKnob comes before every addKnob, the
\* knobs removed are the user knobs from some position k on, removed last knob
\* first, and the knobs added are the proposed list from k on, in list order.
C14_RemovesInReverseThenAdds ==
    (Succeeded /\ BatchIsNew /\ NoKnobTwice) =>
        /\ last.log = HostLog("removeKnob", LogKnobs("removeKnob"))
                        \o HostLog("addKnob", LogKnobs("addKnob"))
        /\ \E k \in 0..Len(PreUser) :
              /\ LogKnobs("removeKnob") = reversed(SubSeq(PreUser, k + 1, Len(PreUser)))
              /\ LogKnobs("addKnob") = SubSeq(Proposed, k + 1, Len(Proposed))

\* the number of leading positions at which the two lists hold the same knob
FirstDivergence(old, new) ==
    IF \E i \in 1..Len(old) : i > Len(new) \/ old[i] # new[i]
    THEN (CHOOSE i \in 1..Len(old) :
             /\ i > Len(new) \/ old[i] # new[i]
             /\ \A j \in 1..(i - 1) : j <= Len(new) /\ old[j] = new[j]) - 1
    ELSE Len(old)

\* C15: a successful insert removes and adds no user knob in front of the first
\* position at which the user knobs before the call and the proposed list differ
\* (the end of the list when the batch goes at the end); an insert with no
\* anchor and insert_before false calls removeKnob not at all and addKnob once
\* for each new knob.
C15_OnlyTheTailIsRebuilt ==
    (Succeeded /\ BatchIsNew /\ NoKnobTwice) =>
        /\ \A i \in 1..FirstDivergence(PreUser, Proposed) :
              PreUser[i] \notin Range(LogKnobs("removeKnob")) \cup Range(LogKnobs("addKnob"))
        /\ (last.knob_point.type = "none" /\ ~last.insert_before) =>
              /\ LogKnobs("removeKnob") = <<>>
              /\ LogKnobs("addKnob") = last.new_knobs

(***************************************************************************)
(* Properties of _calculate_insertion_point (checked under ResolveSpec).   *)
(* Positions and points count from 0, as in the code.                      *)
(***************************************************************************)
\* C16: for a list of n user knobs _calculate_insertion_point returns 0 for no
\* knob point and insert_before, n for no knob point and not insert_before, i
\* for a knob point at position i and insert_before, i + 1 for it and not
\* insert_before; every point returned is in 0..n, and a knob point that is not
\* in the list gives the IndexError and no point.
C16_InsertionPoint ==
    ip.done =>
        LET n == Len(ip.list)
        IN /\ ip.knob_point = NoKnob =>
                 /\ ip.result.err = ""
                 /\ ip.result.point = (IF ip.insert_before THEN 0 ELSE n)
           /\ \A i \in 0..(n - 1) :
                 ip.list[i + 1] = ip.knob_point =>
                     /\ ip.result.err = ""
                     /\ ip.result.point = (IF ip.insert_before THEN i ELSE i + 1)
           /\ (ip.knob_point # NoKnob /\ ip.knob_point \notin Range(ip.list)) =>
                 ip.result.err = "IndexError"
           /\ ip.result.err = "" => ip.result.point \in 0..n

C16_Witness ==
    /\ ip.done /\ Len(ip.list) = NumKnobs
    /\ ip.knob_point = ip.list[2] /\ ip.insert_before
    /\ ip.result = [err |-> "", point |-> 1]

(***************************************************************************)
(* Properties of pop_user_knobs (checked under PopSpec)                    *)
(***************************************************************************)
\* C17: pop_user_knobs calls removeKnob once for each user knob, the last user
\* knob first, leaves the fixed knobs and every name as they were, and returns
\* the user knobs in the order they had; after it the node has no user knob.
C17_PopRemovesAllUserKnobs ==
    last.op = "pop_user_knobs" =>
        /\ Len(last.log) = Len(PreUser)
        /\ \A i \in 1..Len(PreUser) :
              last.log[i] = <<"removeKnob", PreUser[Len(PreUser) + 1 - i]>>
        /\ last.ret = PreUser
        /\ allKnobs = FixedBefore
        /\ name = last.preName
        /\ PostUser = <<>>

C17_Witness ==
    /\ last.op = "pop_user_knobs"
    /\ Len(PreUser) >= 2 /\ PreUser[1] # PreUser[2]
    /\ PostUser = <<>>

(***************************************************************************)
(* Properties of mangle_knob_name (checked under Spec)                     *)
(***************************************************************************)
\* C18: mangle_knob_name returns the knob's name as it is when the knob is on
\* the node or when no knob of the node carries that name, and otherwise a name
\* that no knob of the node carries; it renames the knob only when rename is
\* true and a mangled name was produced, renames no other knob, and leaves the
\* node's list as it was.
C18_MangleKnobName ==
    last.op = "mangle_knob_name" =>
        LET knob == last.new_knobs[1]
            in_use == knob_names(last.preKnobs, last.preName)
            as_it_is == knob \in Range(last.preKnobs) \/ last.preName[knob] \notin in_use
        IN /\ as_it_is => last.retName = last.preName[knob]
           /\ ~as_it_is => last.retName \notin in_use
           /\ name[knob] # last.preName[knob] =>
                 last.rename /\ ~as_it_is /\ name[knob] = last.retName
           /\ \A k \in Knobs \ {knob} : name[k] = last.preName[k]
           /\ allKnobs = last.preKnobs

\* C19: a successful insert on a node that holds every knob once changes the
\* name of no knob that was on the node before the call, and after it the node
\* still holds every knob once; the batch may hold knobs that are user knobs of
\* the node already.
C19_AttachedKnobsKeptAsTheyAre ==
    (Succeeded /\ NoKnobTwice) =>
        /\ \A k \in Range(last.preKnobs) : name[k] = last.preName[k]
        /\ \A i, j \in 1..Len(allKnobs) : i # j => allKnobs[i] # allKnobs[j]

\* the user knobs of the node before the last pop_user_knobs
PoppedUser == all_user_knobs(popped.knobs, popped.name, nodeClass)

\* the last call is add_knobs of the list the last pop_user_knobs returned, made
\* on the node as that pop_user_knobs left it
AddedBackAfterPop ==
    /\ last.op = "add_knobs" /\ last.outcome = "ok"
    /\ popped.done
    /\ last.new_knobs = popped.ret
    /\ last.preKnobs = fixed_knobs(popped.knobs, popped.name, nodeClass)
    /\ last.preName = popped.name

\* C20: on a node whose user knobs have names that differ from each other and
\* from the names of the fixed knobs, pop_user_knobs followed by add_knobs of the
\* list it returned gives back the node's list, knob for knob, and every name.
C20_PopThenAddRestores ==
    (/\ AddedBackAfterPop
     /\ PairwiseDistinctNames(PoppedUser, popped.name)
     /\ \A k \in Range(PoppedUser) :
            popped.name[k] \notin knob_names(last.preKnobs, popped.name)) =>
        /\ allKnobs = popped.knobs
        /\ name = popped.name

C20_Witness ==
    /\ AddedBackAfterPop
    /\ PairwiseDistinctNames(PoppedUser, popped.name)
    /\ Len(PoppedUser) >= 2
    /\ allKnobs = popped.knobs

====
